---- MODULE Spec2Model ----
(***************************************************************************)
(* The client-side authentication session of the AI chat bot frontend:     *)
(* the zustand session store (stores/authStore.js, and the fetch-based     *)
(* login/register/logout that unnamed/part_000 puts in its place), the      *)
(* axios wrapper with its two interceptors (services/api.js), the resource *)
(* clients built on it and the page-level requests that use fetch.         *)
(*                                                                         *)
(* The repository holds two texts of login/register/logout.  The variable  *)
(* build says which one the store was built from: "api" is authStore.js as *)
(* it stands, "fetch" is authStore.js with part_000 applied.  It is chosen *)
(* in Init and never changes.                                              *)
(***************************************************************************)
EXTENDS Naturals, Sequences, FiniteSets, TLC

VARIABLES build, session, storage, defaults, redirected, calls, nextId,
          validated, granted, last

vars == <<build, session, storage, defaults, redirected, calls, nextId,
          validated, granted, last>>

-----------------------------------------------------------------------------
(* Bounds of the model. *)

\* invocations of asynchronous operations in one behaviour
MaxCalls == 2

-----------------------------------------------------------------------------
(* Values. *)

\* JavaScript null / undefined, and an absent field of an object
None == "<null>"

Builds == {"api", "fetch"}
Tokens == {"t1", "t2"}
Usernames == {"alice"}

\* `${v}` : a template literal prints null as the text null
ToStr(v) == IF v = None THEN "null" ELSE v

\* `Bearer ${token}`
Bearer(t) == "Bearer " \o ToStr(t)

\* no Authorization header
NoHeader == "<no header>"

\* statuses of a response; 0 stands for a request the transport could not
\* complete (axios: error.response undefined, fetch: a thrown TypeError)
NetworkFailure == 0
Ok == 200
BadRequest == 400
Unauthorized == 401

DetailMsg == "detail from server"
NetMsg == "Failed to fetch"
ParseMsg == "Unexpected token in JSON"
LoginFailedMsg == "Login failed"
RegistrationFailedMsg == "Registration failed"
ProfileUpdateFailedMsg == "Profile update failed"
PasswordChangeFailedMsg == "Password change failed"

\* a user object; isNull marks the value null, None marks an absent field
NullUser == [isNull |-> TRUE, username |-> None, email |-> None]
MkUser(u, e) == [isNull |-> FALSE, username |-> u, email |-> e]

\* what GET /users/profile returns for a token the server accepts
Profiles == {MkUser("alice", "a@x.com")}
\* response.data.user of POST /auth/login (undefined when the server sends none)
LoginUsers == Profiles \cup {NullUser}
\* response.data of PUT /users/profile: a partial user
ProfilePatches == {MkUser(None, "new@x.com")}

\* failed responses: a non-2xx status with or without a JSON body carrying
\* detail, or no response at all
ErrResponses ==
  {[status |-> BadRequest, json |-> TRUE, detail |-> d] : d \in {None, DetailMsg}}
  \cup {[status |-> Unauthorized, json |-> TRUE, detail |-> DetailMsg]}
  \cup {[status |-> BadRequest, json |-> FALSE, detail |-> None]}
  \cup {[status |-> NetworkFailure, json |-> FALSE, detail |-> None]}

OkResponse == [status |-> Ok, json |-> TRUE, detail |-> None]

-----------------------------------------------------------------------------
(* The store's state and the persist middleware. *)

EmptySession ==
  [user |-> NullUser, token |-> None, isAuthenticated |-> FALSE,
   isLoading |-> FALSE, error |-> None]

\* partialize: only the token field is written to storage
Partialize(s) == [present |-> TRUE, token |-> s.token]

\* localStorage.removeItem('auth-storage')
RemovedItem == [present |-> FALSE, token |-> None]

\* the token a reader of storage finds: JSON.parse(item).state?.token
StoredToken(st) == IF st.present THEN st.token ELSE None

\* persist: every set() is followed by setItem(partialize(state))
Persist(s) == Partialize(s)

\* hydration that trusts a stored token
RehydrateTrusting(st) ==
  IF st.present
  THEN [EmptySession EXCEPT !.token = st.token,
                            !.isAuthenticated = (st.token # None)]
  ELSE EmptySession
\* persist's hydration at store creation: {...initialState, ...storedState}
Rehydrate(st) ==
  IF st.present THEN [EmptySession EXCEPT !.token = st.token] ELSE EmptySession

-----------------------------------------------------------------------------
(* services/api.js *)

\* the request interceptor: axios has merged the default headers into
\* config.headers; the interceptor overwrites Authorization when storage
\* holds a truthy token
RequestInterceptor(st, dflt) ==
  IF st.present /\ StoredToken(st) # None THEN Bearer(StoredToken(st)) ELSE dflt

\* an interceptor that logs out on every error status
ForcesLogoutAnyError(resp) == resp.status >= BadRequest
\* the response interceptor's test
ForcesLogout(resp) == resp.status = Unauthorized

\* the response interceptor's effect on storage
ResponseInterceptor(resp, st) == IF ForcesLogout(resp) THEN RemovedItem ELSE st

\* the message that ignores what the server sent
ApiErrorMessageDefaultOnly(resp, dflt) == dflt
\* the message without its fallback: error.response?.data?.detail
ApiErrorMessageNoDefault(resp, dflt) ==
  IF resp.status # NetworkFailure /\ resp.json /\ resp.detail # None
  THEN resp.detail ELSE None
\* error.response?.data?.detail || dflt
ApiErrorMessage(resp, dflt) ==
  IF resp.status # NetworkFailure /\ resp.json /\ resp.detail # None
  THEN resp.detail ELSE dflt

\* the message of the error a failed fetch leaves in the catch block:
\* fetch itself throws on a transport failure, response.json() throws on a
\* body that is no JSON, otherwise new Error(errorData.detail || dflt)
FetchErrorMessage(resp, dflt) ==
  IF resp.status = NetworkFailure THEN NetMsg
  ELSE IF ~resp.json THEN ParseMsg
  ELSE IF resp.detail # None THEN resp.detail ELSE dflt

-----------------------------------------------------------------------------
(* stores/authStore.js: the state updates of the operations. *)

\* set({ isLoading: true, error: null })
BeginLoading(s) == [s EXCEPT !.isLoading = TRUE, !.error = None]

\* login's set on success
LoginSuccess(s, user, tok) ==
  [user |-> user, token |-> tok, isAuthenticated |-> TRUE,
   isLoading |-> FALSE, error |-> None]

\* a catch block that also resets the session
FailureClearsToken(s, msg) ==
  [s EXCEPT !.isLoading = FALSE, !.error = msg, !.token = None,
            !.isAuthenticated = FALSE, !.user = NullUser]
\* login's and register's set in the catch block
Failure(s, msg) == [s EXCEPT !.isLoading = FALSE, !.error = msg]

\* a register that logs the new user in
RegisterSuccessLogsIn(s) ==
  [s EXCEPT !.isLoading = FALSE, !.error = None, !.isAuthenticated = TRUE]
\* register's set on success
RegisterSuccess(s) == [s EXCEPT !.isLoading = FALSE, !.error = None]

\* logout's set
Logout(s) == EmptySession

\* logout's effect on api.defaults.headers.common['Authorization']:
\* authStore.js deletes it, part_000's logout leaves it alone
LogoutDefaults(b, dflt) == IF b = "api" THEN NoHeader ELSE dflt

\* the response replaces the user record
MergeUserReplace(u, d) == [d EXCEPT !.isNull = FALSE]
\* { ...get().user, ...response.data }
MergeUser(u, d) ==
  [isNull |-> FALSE,
   username |-> IF d.username # None THEN d.username ELSE u.username,
   email |-> IF d.email # None THEN d.email ELSE u.email]

\* updateProfile's set on success
UpdateProfileSuccess(s, data) == [s EXCEPT !.user = MergeUser(s.user, data)]

\* the catch block of login copied into updateProfile
SetErrorStopsLoading(s, msg) == [s EXCEPT !.error = msg, !.isLoading = FALSE]
\* set({ error: errorMessage }) of updateProfile and changePassword
SetError(s, msg) == [s EXCEPT !.error = msg]

\* a catch block that drops the flag and the user but keeps the token
InitializeAuthCatchFlagOnly(s) ==
  [s EXCEPT !.isAuthenticated = FALSE, !.user = NullUser]
\* initializeAuth's catch block: get().logout()
InitializeAuthCatch(s) == Logout(s)

\* a success handler that sets the flag and forgets the profile
InitializeAuthSuccessFlagOnly(s, data) == [s EXCEPT !.isAuthenticated = TRUE]
\* a success handler that stores the profile and forgets the flag
InitializeAuthSuccessUserOnly(s, data) == [s EXCEPT !.user = data]
\* initializeAuth's set on success
InitializeAuthSuccess(s, data) ==
  [s EXCEPT !.user = data, !.isAuthenticated = TRUE]

\* profileResponse.ok ? await profileResponse.json() : { username }
LoginUser(resp, profile, username) ==
  IF resp.status = Ok THEN profile ELSE MkUser(username, None)

-----------------------------------------------------------------------------
(* Bookkeeping of the invocations in flight and of the last event. *)

NoCall ==
  [id |-> 0, op |-> "none", pc |-> "none", username |-> None, tok |-> None,
   hdr |-> NoHeader, seen |-> "nothing", overlap |-> FALSE, tok0 |-> None,
   auth0 |-> FALSE, nMain |-> 0, nProfile |-> 0, stale |-> FALSE]

NewCall(op, pc, username, tok, hdr) ==
  [NoCall EXCEPT !.id = nextId, !.op = op, !.pc = pc, !.username = username,
                 !.tok = tok, !.hdr = hdr, !.tok0 = session.token,
                 !.auth0 = session.isAuthenticated]

\* a request sent twice
SendRequestTwice(c, endpoint) ==
  IF endpoint = "profile" THEN [c EXCEPT !.nProfile = @ + 2]
  ELSE [c EXCEPT !.nMain = @ + 2]
\* invocation c sends one request: to GET /users/profile ("profile"), or to
\* the endpoint of its operation ("main")
SendRequest(c, endpoint) ==
  IF endpoint = "profile" THEN [c EXCEPT !.nProfile = @ + 1]
  ELSE [c EXCEPT !.nMain = @ + 1]

\* the other invocations in flight saw an event of kind k: a step of a login
\* ("login"), a login resolving ("loginDone") or anything else ("other")
Touch(cs, k) ==
  {[d EXCEPT !.seen = IF k = "other" \/ d.seen = "other" THEN "other"
                      ELSE "logins",
             !.overlap = d.overlap \/ k = "loginDone"] : d \in cs}

\* logout ran: the logins and initializeAuths in flight were started before
\* it
LoggedOut(cs) ==
  {IF d.op \in {"login", "initializeAuth"} THEN [d EXCEPT !.stale = TRUE]
   ELSE d : d \in cs}

CanStart == nextId <= MaxCalls

\* what a caller passes to change a password
PasswordData == [currentPassword |-> "old", newPassword |-> "new"]

\* a request whose shape is not described
NoRequest == [method |-> "none", url |-> "none", encoding |-> "none",
              fields |-> {}]

\* new FormData() with current_password and new_password appended, sent
\* with PUT to /users/password
FormRequest(pd) ==
  [method |-> "PUT", url |-> "/users/password", encoding |-> "form",
   fields |-> {<<"current_password", pd.currentPassword>>,
               <<"new_password", pd.newPassword>>}]

\* api.put('/users/password', passwordData): the object of the caller goes
\* out as the JSON body
StoreChangePasswordRequest(pd) ==
  [method |-> "PUT", url |-> "/users/password", encoding |-> "json",
   fields |-> {<<"currentPassword", pd.currentPassword>>,
               <<"newPassword", pd.newPassword>>}]

\* userAPI.changePassword
UserApiChangePasswordRequest(pd) == FormRequest(pd)

\* handlePasswordChange of the Settings page
SettingsChangePasswordRequest(pd) == FormRequest(pd)

\* the requests of the resource clients and of the pages: changing the
\* password, or any other
RequestKinds == {"changePassword", "other"}

NoEvent ==
  [op |-> "none", ev |-> "none", status |-> Ok, outcome |-> "none",
   forced |-> 0, sent |-> "none", hdr |-> NoHeader, seen |-> "nothing",
   overlap |-> FALSE, tok0 |-> None, auth0 |-> FALSE, rtok |-> None,
   msg |-> None, username |-> None, detail |-> None, json |-> TRUE,
   nMain |-> 0, nProfile |-> 0, req |-> NoRequest, stale |-> FALSE]

\* an invocation started and sent a request through `via`
Sent(op, via, hdr) ==
  [NoEvent EXCEPT !.op = op, !.ev = "start", !.sent = via, !.hdr = hdr]

\* invocation c handled response resp and finished with `outcome`; detail
\* and json are those of the body a failure handler built its message from
Done(c, resp, outcome, forced, msg) ==
  [NoEvent EXCEPT !.op = c.op, !.ev = "done", !.status = resp.status,
                  !.outcome = outcome, !.forced = forced, !.seen = c.seen,
                  !.overlap = c.overlap, !.tok0 = c.tok0, !.auth0 = c.auth0,
                  !.rtok = c.tok, !.msg = msg, !.username = c.username,
                  !.hdr = c.hdr, !.nMain = c.nMain, !.nProfile = c.nProfile,
                  !.stale = c.stale,
                  !.detail = IF msg # None THEN resp.detail ELSE None,
                  !.json = IF msg # None THEN resp.json ELSE TRUE]

Forced(resp) == IF ForcesLogout(resp) THEN 1 ELSE 0

\* the token a Bearer header carries
TokenOf(h) == IF \E t \in Tokens : Bearer(t) = h
              THEN CHOOSE t \in Tokens : Bearer(t) = h ELSE None

\* the record of whose most recent validation against GET /users/profile
\* succeeded
Validate(v, h, resp) ==
  IF TokenOf(h) = None THEN v
  ELSE IF resp.status = Ok THEN v \cup {TokenOf(h)} ELSE v \ {TokenOf(h)}

-----------------------------------------------------------------------------
Init ==
  /\ build \in Builds
  \* localStorage holds what an earlier visit persisted: nothing, or a token
  /\ \E st \in {RemovedItem, [present |-> TRUE, token |-> "t1"]} :
        /\ session = Rehydrate(st)
        /\ storage = Persist(session)
  /\ defaults = NoHeader
  /\ redirected = FALSE
  /\ calls = {}
  /\ nextId = 1
  /\ validated = {}
  /\ granted = FALSE
  /\ last = NoEvent

-----------------------------------------------------------------------------
(* login *)

\* login up to its first await: set(), then the request is sent
LoginStart(u) ==
  /\ CanStart
  /\ session' = BeginLoading(session)
  /\ storage' = Persist(session')
  /\ LET hdr == IF build = "api" THEN RequestInterceptor(storage', defaults)
                ELSE NoHeader
     IN /\ calls' = Touch(calls, "login") \cup {SendRequest(NewCall("login", "auth", u, None, hdr), "main")}
        /\ last' = Sent("login", IF build = "api" THEN "api" ELSE "fetch", hdr)
  /\ nextId' = nextId + 1
  /\ UNCHANGED <<build, defaults, redirected, validated, granted>>

\* authStore.js: POST /auth/login answered 2xx
LoginApiOk(c, tok, user) ==
  /\ build = "api" /\ c \in calls /\ c.op = "login" /\ c.pc = "auth"
  /\ defaults' = Bearer(tok)
  /\ session' = LoginSuccess(session, user, tok)
  /\ storage' = Persist(session')
  /\ calls' = Touch(calls \ {c}, "loginDone")
  /\ granted' = TRUE
  /\ last' = Done([c EXCEPT !.tok = tok], OkResponse, "resolved", 0, None)
  /\ UNCHANGED <<build, redirected, nextId, validated>>

\* authStore.js: POST /auth/login failed; the response interceptor runs,
\* then login's catch block
LoginApiFail(c, resp) ==
  /\ build = "api" /\ c \in calls /\ c.op = "login" /\ c.pc = "auth"
  /\ LET msg == ApiErrorMessage(resp, LoginFailedMsg)
     IN /\ session' = Failure(session, msg)
        /\ storage' = Persist(session')
        /\ last' = Done(c, resp, "resolved_failure", Forced(resp), msg)
  /\ redirected' = (redirected \/ ForcesLogout(resp))
  /\ calls' = Touch(calls \ {c}, "loginDone")
  /\ UNCHANGED <<build, defaults, nextId, validated, granted>>

\* part_000: POST /auth/login answered 2xx; the profile request is sent
LoginFetchOk(c, tok) ==
  /\ build = "fetch" /\ c \in calls /\ c.op = "login" /\ c.pc = "auth"
  /\ calls' = Touch(calls \ {c}, "login")
               \cup {SendRequest([c EXCEPT !.pc = "profile", !.tok = tok,
                                             !.hdr = Bearer(tok)], "profile")}
  /\ last' = [Sent("login", "fetch-profile", Bearer(tok)) EXCEPT !.rtok = tok]
  /\ UNCHANGED <<build, session, storage, defaults, redirected, nextId,
                 validated, granted>>

\* part_000: login's catch block
LoginFetchCatch(c, resp, msg) ==
  /\ session' = Failure(session, msg)
  /\ storage' = Persist(session')
  /\ calls' = Touch(calls \ {c}, "loginDone")
  /\ last' = Done(c, resp, "rejected", 0, msg)
  /\ UNCHANGED <<build, defaults, redirected, nextId, granted>>

\* part_000: POST /auth/login failed
LoginFetchFail(c, resp) ==
  /\ build = "fetch" /\ c \in calls /\ c.op = "login" /\ c.pc = "auth"
  /\ LoginFetchCatch(c, resp, FetchErrorMessage(resp, LoginFailedMsg))
  /\ UNCHANGED validated

\* part_000: the answer to login's GET /users/profile
LoginFetchProfile(c, resp, profile) ==
  /\ build = "fetch" /\ c \in calls /\ c.op = "login" /\ c.pc = "profile"
  /\ validated' = Validate(validated, c.hdr, resp)
  /\ IF resp.status = NetworkFailure
     THEN LoginFetchCatch(c, resp, NetMsg)
     ELSE /\ session' = LoginSuccess(session, LoginUser(resp, profile, c.username), c.tok)
          /\ storage' = Persist(session')
          /\ calls' = Touch(calls \ {c}, "loginDone")
          /\ granted' = TRUE
          /\ last' = Done(c, resp, "resolved", 0, None)
          /\ UNCHANGED <<build, defaults, redirected, nextId>>

-----------------------------------------------------------------------------
(* logout, and a reload of the page *)

LogoutAction ==
  /\ defaults' = LogoutDefaults(build, defaults)
  /\ session' = Logout(session)
  /\ storage' = Persist(session')
  /\ calls' = LoggedOut(Touch(calls, "other"))
  /\ granted' = FALSE
  /\ last' = [NoEvent EXCEPT !.op = "logout", !.ev = "done",
                             !.outcome = "resolved"]
  /\ UNCHANGED <<build, redirected, nextId, validated>>

\* the page is loaded again (by the redirect of the response interceptor or
\* by the user): the store is created anew and hydrated from storage, the
\* axios instance is created anew, pending callbacks are gone
Reload ==
  /\ session' = Rehydrate(storage)
  /\ storage' = Persist(session')
  /\ defaults' = NoHeader
  /\ redirected' = FALSE
  /\ calls' = {}
  /\ granted' = FALSE
  /\ last' = [NoEvent EXCEPT !.op = "reload", !.ev = "done"]
  /\ UNCHANGED <<build, nextId, validated>>

-----------------------------------------------------------------------------
(* register *)

RegisterStart ==
  /\ CanStart
  /\ session' = BeginLoading(session)
  /\ storage' = Persist(session')
  /\ LET hdr == IF build = "api" THEN RequestInterceptor(storage', defaults)
                ELSE NoHeader
     IN /\ calls' = Touch(calls, "other")
                     \cup {SendRequest(NewCall("register", "auth", None, None, hdr),
                                        "main")}
        /\ last' = Sent("register", IF build = "api" THEN "api" ELSE "fetch", hdr)
  /\ nextId' = nextId + 1
  /\ UNCHANGED <<build, defaults, redirected, validated, granted>>

RegisterOk(c) ==
  /\ c \in calls /\ c.op = "register"
  /\ session' = RegisterSuccess(session)
  /\ storage' = Persist(session')
  /\ calls' = Touch(calls \ {c}, "other")
  /\ last' = Done(c, OkResponse, "resolved", 0, None)
  /\ UNCHANGED <<build, defaults, redirected, nextId, validated, granted>>

\* authStore.js returns { success: false }, part_000 throws
RegisterFail(c, resp) ==
  /\ c \in calls /\ c.op = "register"
  /\ LET msg == IF build = "api"
                THEN ApiErrorMessage(resp, RegistrationFailedMsg)
                ELSE FetchErrorMessage(resp, RegistrationFailedMsg)
         forced == IF build = "api" THEN Forced(resp) ELSE 0
     IN /\ session' = Failure(session, msg)
        /\ storage' = Persist(session')
        /\ redirected' = (redirected \/ forced = 1)
        /\ last' = Done(c, resp,
                        IF build = "api" THEN "resolved_failure" ELSE "rejected",
                        forced, msg)
  /\ calls' = Touch(calls \ {c}, "other")
  /\ UNCHANGED <<build, defaults, nextId, validated, granted>>

-----------------------------------------------------------------------------
(* updateProfile, changePassword, clearError *)

\* both send one request through the axios instance and change no state
\* before the answer
StoreRequestStart(op) ==
  /\ CanStart
  /\ LET hdr == RequestInterceptor(storage, defaults)
     IN /\ calls' = Touch(calls, "other")
                     \cup {SendRequest(NewCall(op, "auth", None, None, hdr), "main")}
        /\ last' = [Sent(op, "api", hdr) EXCEPT
                      !.req = IF op = "changePassword"
                              THEN StoreChangePasswordRequest(PasswordData)
                              ELSE NoRequest]
  /\ nextId' = nextId + 1
  /\ UNCHANGED <<build, session, storage, defaults, redirected, validated,
                 granted>>

UpdateProfileOk(c, data) ==
  /\ c \in calls /\ c.op = "updateProfile"
  /\ session' = UpdateProfileSuccess(session, data)
  /\ storage' = Persist(session')
  /\ calls' = Touch(calls \ {c}, "other")
  /\ last' = Done(c, OkResponse, "resolved", 0, None)
  /\ UNCHANGED <<build, defaults, redirected, nextId, validated, granted>>

\* the response interceptor, then the catch block's set({ error })
StoreRequestFail(c, resp, dflt) ==
  /\ c \in calls
  /\ LET msg == ApiErrorMessage(resp, dflt)
     IN /\ session' = SetError(session, msg)
        /\ storage' = Persist(session')
        /\ last' = Done(c, resp, "resolved_failure", Forced(resp), msg)
  /\ redirected' = (redirected \/ ForcesLogout(resp))
  /\ calls' = Touch(calls \ {c}, "other")
  /\ UNCHANGED <<build, defaults, nextId, validated, granted>>

UpdateProfileFail(c, resp) ==
  /\ c.op = "updateProfile"
  /\ StoreRequestFail(c, resp, ProfileUpdateFailedMsg)

\* success returns without a set()
ChangePasswordOk(c) ==
  /\ c \in calls /\ c.op = "changePassword"
  /\ calls' = Touch(calls \ {c}, "other")
  /\ last' = Done(c, OkResponse, "resolved", 0, None)
  /\ UNCHANGED <<build, session, storage, defaults, redirected, nextId,
                 validated, granted>>

ChangePasswordFail(c, resp) ==
  /\ c.op = "changePassword"
  /\ StoreRequestFail(c, resp, PasswordChangeFailedMsg)

ClearError ==
  /\ session.error # None
  /\ session' = [session EXCEPT !.error = None]
  /\ storage' = Persist(session')
  /\ calls' = Touch(calls, "other")
  /\ last' = [NoEvent EXCEPT !.op = "clearError", !.ev = "done"]
  /\ UNCHANGED <<build, defaults, redirected, nextId, validated, granted>>

-----------------------------------------------------------------------------
(* initializeAuth *)

\* no token in the store: nothing is sent, nothing is set
InitializeAuthNoToken ==
  /\ session.token = None
  /\ last' = [NoEvent EXCEPT !.op = "initializeAuth", !.ev = "done",
                             !.outcome = "resolved"]
  /\ calls' = Touch(calls, "other")
  /\ UNCHANGED <<build, session, storage, defaults, redirected, nextId,
                 validated, granted>>

\* the token becomes the default Authorization header and the profile is
\* requested
InitializeAuthStart ==
  /\ CanStart
  /\ session.token # None
  /\ defaults' = Bearer(session.token)
  /\ LET hdr == RequestInterceptor(storage, defaults')
     IN /\ calls' = Touch(calls, "other")
                     \cup {SendRequest(NewCall("initializeAuth", "profile", None,
                                               session.token, hdr), "profile")}
        /\ last' = Sent("initializeAuth", "api", hdr)
  /\ nextId' = nextId + 1
  /\ UNCHANGED <<build, session, storage, redirected, validated, granted>>

InitializeAuthOk(c, profile) ==
  /\ c \in calls /\ c.op = "initializeAuth"
  /\ session' = InitializeAuthSuccess(session, profile)
  /\ storage' = Persist(session')
  /\ validated' = Validate(validated, c.hdr, OkResponse)
  /\ granted' = TRUE
  /\ calls' = Touch(calls \ {c}, "other")
  /\ last' = Done(c, OkResponse, "resolved", 0, None)
  /\ UNCHANGED <<build, defaults, redirected, nextId>>

\* any failure: the response interceptor, then get().logout()
InitializeAuthFail(c, resp) ==
  /\ c \in calls /\ c.op = "initializeAuth"
  /\ defaults' = LogoutDefaults(build, defaults)
  /\ session' = InitializeAuthCatch(session)
  /\ storage' = Persist(session')
  /\ redirected' = (redirected \/ ForcesLogout(resp))
  /\ validated' = Validate(validated, c.hdr, resp)
  /\ granted' = FALSE
  /\ calls' = LoggedOut(Touch(calls \ {c}, "other"))
  /\ last' = Done(c, resp, "resolved", Forced(resp), None)
  /\ UNCHANGED <<build, nextId>>

-----------------------------------------------------------------------------
(* the resource clients of api.js, and the pages' own requests *)

\* chatAPI, fileAPI, pluginAPI, userAPI, healthAPI: one request through the
\* axios instance
ClientStart(kind) ==
  /\ CanStart
  /\ LET hdr == RequestInterceptor(storage, defaults)
     IN /\ calls' = Touch(calls, "other")
                     \cup {SendRequest(NewCall("client", "auth", None, None, hdr),
                                        "main")}
        /\ last' = [Sent("client", "api", hdr) EXCEPT
                      !.req = IF kind = "changePassword"
                              THEN UserApiChangePasswordRequest(PasswordData)
                              ELSE NoRequest]
  /\ nextId' = nextId + 1
  /\ UNCHANGED <<build, session, storage, defaults, redirected, validated,
                 granted>>

\* the promise goes back to the caller; a failure has passed the response
\* interceptor
ClientResponse(c, resp) ==
  /\ c \in calls /\ c.op = "client"
  /\ storage' = ResponseInterceptor(resp, storage)
  /\ redirected' = (redirected \/ ForcesLogout(resp))
  /\ calls' = Touch(calls \ {c}, "other")
  /\ last' = Done(c, resp, IF resp.status = Ok THEN "resolved" ELSE "rejected",
                  Forced(resp), None)
  /\ UNCHANGED <<build, session, defaults, nextId, validated, granted>>

\* KnowledgeBase, Conversations, Settings: rendered inside ProtectedRoute,
\* they call fetch with the token read from the store
PageStart(kind) ==
  /\ CanStart
  /\ session.isAuthenticated
  /\ LET hdr == Bearer(session.token)
     IN /\ calls' = Touch(calls, "other")
                     \cup {SendRequest(NewCall("page", "auth", None, session.token,
                                                hdr), "main")}
        /\ last' = [Sent("page", "fetch-page", hdr) EXCEPT
                      !.req = IF kind = "changePassword"
                              THEN SettingsChangePasswordRequest(PasswordData)
                              ELSE NoRequest]
  /\ nextId' = nextId + 1
  /\ UNCHANGED <<build, session, storage, defaults, redirected, validated,
                 granted>>

\* the answer only changes the component's own state
PageResponse(c, resp) ==
  /\ c \in calls /\ c.op = "page"
  /\ calls' = Touch(calls \ {c}, "other")
  /\ last' = Done(c, resp, "resolved", 0, None)
  /\ UNCHANGED <<build, session, storage, defaults, redirected, nextId,
                 validated, granted>>

-----------------------------------------------------------------------------
Next ==
  \/ \E u \in Usernames : LoginStart(u)
  \/ \E c \in calls, t \in Tokens, u \in LoginUsers : LoginApiOk(c, t, u)
  \/ \E c \in calls, r \in ErrResponses : LoginApiFail(c, r)
  \/ \E c \in calls, t \in Tokens : LoginFetchOk(c, t)
  \/ \E c \in calls, r \in ErrResponses : LoginFetchFail(c, r)
  \/ \E c \in calls, r \in ErrResponses \cup {OkResponse}, p \in Profiles :
        LoginFetchProfile(c, r, p)
  \/ RegisterStart
  \/ \E c \in calls : RegisterOk(c)
  \/ \E c \in calls, r \in ErrResponses : RegisterFail(c, r)
  \/ StoreRequestStart("updateProfile")
  \/ StoreRequestStart("changePassword")
  \/ \E c \in calls, d \in ProfilePatches : UpdateProfileOk(c, d)
  \/ \E c \in calls, r \in ErrResponses : UpdateProfileFail(c, r)
  \/ \E c \in calls : ChangePasswordOk(c)
  \/ \E c \in calls, r \in ErrResponses : ChangePasswordFail(c, r)
  \/ ClearError
  \/ InitializeAuthNoToken
  \/ InitializeAuthStart
  \/ \E c \in calls, p \in Profiles : InitializeAuthOk(c, p)
  \/ \E c \in calls, r \in ErrResponses : InitializeAuthFail(c, r)
  \/ \E k \in RequestKinds : ClientStart(k)
  \/ \E c \in calls, r \in ErrResponses \cup {OkResponse} : ClientResponse(c, r)
  \/ \E k \in RequestKinds : PageStart(k)
  \/ \E c \in calls, r \in ErrResponses \cup {OkResponse} : PageResponse(c, r)
  \/ LogoutAction
  \/ Reload

Spec == Init /\ [][Next]_vars

-----------------------------------------------------------------------------
(* Properties. *)

\* the last event is the completion of an invocation of op
Completed(op) == last.op = op /\ last.ev = "done"

\* the authentication endpoint accepted the credentials of the login that
\* just completed: it returned an access_token
Accepted == Completed("login") /\ last.rtok # None

\* the authentication endpoint answered the login that just completed with
\* a non-2xx status
RejectedByEndpoint ==
  /\ Completed("login") /\ last.rtok = None
  /\ last.status \in {BadRequest, Unauthorized}

\* nothing else happened between the start and the end of the invocation
\* that just completed
RanAlone == last.seen = "nothing"

StoreOps ==
  {"login", "register", "updateProfile", "changePassword", "initializeAuth"}

\* C1: a login the authentication endpoint accepts, started from an
\* Unauthenticated session and run with nothing interleaved, ends with
\* isAuthenticated = true, token = the returned access_token,
\* isLoading = false and error = null.
C1_AcceptedLoginAuthenticates ==
  (Accepted /\ ~last.auth0 /\ RanAlone) =>
     /\ session.isAuthenticated
     /\ session.token = last.rtok
     /\ ~session.isLoading
     /\ session.error = None

C3_UnauthorizedClearsPersistedToken ==
  (last.ev = "done" /\ last.op \in StoreOps /\ last.status = Unauthorized) =>
     /\ StoredToken(storage) = None
     /\ last.forced = 1
     /\ redirected

\* C4: a request sent through the axios instance, by login/register or by a
\* page while the session token is null and storage holds no token carries
\* no Authorization header.  (The profile request of the fetch-based login
\* carries the access_token it has just received; it is not a request sent
\* without a token.)
C4_NoTokenNoAuthorizationHeader ==
  (/\ last.ev = "start"
   /\ last.sent \in {"api", "fetch", "fetch-page"}
   /\ session.token = None
   /\ StoredToken(storage) = None) => last.hdr = NoHeader

\* C5: every response with status 401 triggers exactly one forced logout
\* (storage cleared by the response interceptor and redirect to the login
\* entry point), whichever client issued the request.
C5_UnauthorizedForcesOneLogout ==
  (last.ev = "done" /\ last.status = Unauthorized) => last.forced = 1

\* C6 as stated: isAuthenticated is true iff token is non-empty and the most
\* recent validation of that token against the profile endpoint succeeded.
C6_AuthenticatedIffValidated ==
  session.isAuthenticated <=>
     (session.token # None /\ session.token \in validated)

\* C6 as amended: isAuthenticated is true iff, since the store was created
\* and since the last logout, a login has completed successfully or an
\* initializeAuth has had its profile request answered successfully.
C6_AuthenticatedIffGranted == session.isAuthenticated <=> granted

\* the session is authenticated by a login whose token no profile request
\* has validated
C6_Witness ==
  /\ session.isAuthenticated /\ granted
  /\ session.token # None /\ session.token \notin validated
  /\ Completed("login")

\* C7: logout, from any state, yields the initial empty session and clears
\* the request-default Authorization header (so a second logout changes
\* nothing).
C7_LogoutYieldsEmptySession ==
  (last.op = "logout") =>
     /\ session = EmptySession
     /\ StoredToken(storage) = None
     /\ defaults = NoHeader

\* C8: when initializeAuth ran with a stored token and its profile request
\* failed, the session and the persisted token are those an explicit
\* logout() from the same state produces.
C8_FailedInitializeAuthEqualsLogout ==
  [][(last'.op = "initializeAuth" /\ last'.ev = "done" /\ last'.status # Ok) =>
        /\ session' = Logout(session)
        /\ StoredToken(storage') = StoredToken(Persist(Logout(session)))]_vars

\* initializeAuth's profile request, sent for a stored token, was answered
\* 401 and has been handled
C8_Witness ==
  /\ Completed("initializeAuth")
  /\ last.status = Unauthorized
  /\ last.rtok # None
  /\ session = EmptySession

\* C9: once the authentication endpoint has returned a token, a failure of
\* the follow-up profile request never fails the login: the session becomes
\* {user: {username}, token, isAuthenticated: true} and login does not
\* signal failure.
C9_ProfileFailureNeverFailsLogin ==
  (Accepted /\ last.status # Ok) =>
     /\ last.outcome = "resolved"
     /\ session.user = MkUser(last.username, None)
     /\ session.token = last.rtok
     /\ session.isAuthenticated

\* C10 as stated: of two logins in flight at once, the one that resolves
\* last determines user, token, isAuthenticated, isLoading and error, and
\* overwrites what the one that resolved earlier wrote: the session ends as
\* if the last login had run alone from the state it started in.
C10_LastLoginOverwritesAll ==
  (Completed("login") /\ last.overlap /\ last.seen = "logins") =>
     IF last.outcome = "resolved"
     THEN /\ session.token = last.rtok /\ session.isAuthenticated
          /\ ~session.isLoading /\ session.error = None
     ELSE /\ session.token = last.tok0
          /\ session.isAuthenticated = last.auth0
          /\ ~session.isLoading /\ session.error = last.msg

\* C10 as amended: logins in flight at once are not coordinated.  The login
\* that resolves last always determines isLoading and error; when it
\* succeeds it also determines user, token and isAuthenticated, and when it
\* fails it leaves user, token and isAuthenticated as the login that
\* resolved earlier wrote them.
C10_LastLoginOverwritesWhatItSets ==
  [][(last'.op = "login" /\ last'.ev = "done" /\ last'.overlap) =>
        IF last'.outcome = "resolved"
        THEN /\ session'.token = last'.rtok /\ session'.isAuthenticated
             /\ ~session'.isLoading /\ session'.error = None
        ELSE /\ session'.user = session.user
             /\ session'.token = session.token
             /\ session'.isAuthenticated = session.isAuthenticated
             /\ ~session'.isLoading /\ session'.error = last'.msg]_vars

\* a login that failed resolved after a login that succeeded: the token of
\* the earlier one is still in the session
C10_Witness ==
  /\ Completed("login") /\ last.overlap /\ last.seen = "logins"
  /\ last.outcome # "resolved"
  /\ last.tok0 = None
  /\ session.token # None /\ session.isAuthenticated

\* the three events that end an Authenticated session: logout, a 401
\* response handled by the response interceptor, a failed token validation
\* in initializeAuth
Demotes(e) ==
  \/ e.op = "logout"
  \/ e.ev = "done" /\ e.forced = 1
  \/ e.op = "initializeAuth" /\ e.ev = "done" /\ e.status # Ok

\* C11: an Authenticated session becomes Unauthenticated on each of logout,
\* a 401 response handled by the response interceptor and a failed token
\* validation in initializeAuth, and on no other event of the running page:
\* a failed login, register, updateProfile or changePassword never demotes
\* it.
C11_DemotedExactlyByLogoutOr401OrFailedValidation ==
  [][/\ (session.isAuthenticated /\ Demotes(last')) =>
           ~session'.isAuthenticated
     /\ (session.isAuthenticated /\ ~session'.isAuthenticated) =>
           (Demotes(last') \/ last'.op = "reload")]_vars

-----------------------------------------------------------------------------
(* persistence across a reload *)

\* the session a page load builds from what storage holds
Reloaded(st) ==
  [user |-> NullUser, token |-> StoredToken(st), isAuthenticated |-> FALSE,
   isLoading |-> FALSE, error |-> None]

\* C12 as stated: only the token is persisted: after a reload the session
\* has the last persisted token, no user and isAuthenticated false, and
\* isAuthenticated becomes true only when initializeAuth has validated the
\* token against the profile endpoint.
C12_OnlyInitializeAuthAuthenticates ==
  [][/\ last'.op = "reload" => session' = Reloaded(storage)
     /\ (~session.isAuthenticated /\ session'.isAuthenticated) =>
           /\ last'.op = "initializeAuth" /\ last'.ev = "done"
           /\ last'.status = Ok]_vars

\* C12 as amended: only the token is persisted: after a reload the session
\* has the last persisted token, no user and isAuthenticated false, and
\* isAuthenticated becomes true only when initializeAuth has had the profile
\* endpoint answer for the token or when a new login has resolved; it is
\* never taken from storage.
C12_ReloadKeepsOnlyToken ==
  [][/\ last'.op = "reload" => session' = Reloaded(storage)
     /\ (~session.isAuthenticated /\ session'.isAuthenticated) =>
           /\ last'.ev = "done"
           /\ \/ last'.op = "initializeAuth" /\ last'.status = Ok
              \/ last'.op = "login" /\ last'.outcome = "resolved"]_vars

\* the page was loaded again while storage held a token that the profile
\* endpoint had accepted before: the token is back, the session is not
\* authenticated
C12_Witness ==
  /\ last.op = "reload"
  /\ session.token # None /\ session.token \in validated
  /\ session.user = NullUser /\ ~session.isAuthenticated

-----------------------------------------------------------------------------
(* the error contracts of the store operations *)

\* login or register just failed
FailedAuthOp ==
  /\ last.ev = "done" /\ last.op \in {"login", "register"}
  /\ last.outcome \in {"rejected", "resolved_failure"}

DefaultMessage(op) ==
  IF op = "login" THEN LoginFailedMsg ELSE RegistrationFailedMsg

\* C13: on any failure of login or register (network failure or
\* non-2xx response) the operation sets isLoading=false, sets error to the
\* detail message of the server when present and otherwise to its default
\* message, and rejects with an error carrying that message.
C13_FailureSetsDetailOrDefaultAndRejects ==
  FailedAuthOp =>
     /\ ~session.isLoading
     /\ session.error = IF last.detail # None THEN last.detail
                        ELSE DefaultMessage(last.op)
     /\ last.outcome = "rejected" /\ last.msg = session.error

-----------------------------------------------------------------------------
(* updateProfile, changePassword and register: what they change *)

UserFieldNames == {"username", "email"}

\* updateProfile just had its request answered with data
UpdateProfileSucceeded(e) ==
  e.op = "updateProfile" /\ e.ev = "done" /\ e.status = Ok

\* C14: a successful updateProfile shallow-merges the returned fields into
\* the current user record: a field absent from the response keeps its
\* value, a field present in it takes the value of the response, and token
\* and isAuthenticated are unchanged.
C14_UpdateProfileShallowMerges ==
  [][UpdateProfileSucceeded(last') =>
        /\ \E d \in ProfilePatches :
              \A f \in UserFieldNames :
                 session'.user[f] = IF d[f] # None THEN d[f]
                                    ELSE session.user[f]
        /\ session'.token = session.token
        /\ session'.isAuthenticated = session.isAuthenticated]_vars

\* the profile of a logged-in user was updated with {email}: the new email
\* is in the user record next to the username it had
C14_Witness ==
  /\ UpdateProfileSucceeded(last)
  /\ session.user.email = "new@x.com" /\ session.user.username = "alice"
  /\ session.isAuthenticated /\ session.token # None

\* changePassword was just answered with a non-2xx status
ChangePasswordRejected ==
  Completed("changePassword") /\ last.status \in {BadRequest, Unauthorized}

\* C15: when the server rejects changePassword with a non-2xx response that
\* carries a detail message, session.error is that message after the
\* operation and the operation resolves to its caller without throwing;
\* without a detail message error is 'Password change failed'.
C15_ChangePasswordRejectionSetsDetail ==
  ChangePasswordRejected =>
     /\ last.outcome = "resolved_failure"
     /\ session.error = IF last.detail # None THEN last.detail
                        ELSE PasswordChangeFailedMsg

\* changePassword was answered 400 with a detail message
C15_Witness ==
  /\ ChangePasswordRejected
  /\ last.status = BadRequest /\ last.detail = DetailMsg
  /\ session.error = DetailMsg

\* updateProfile just failed
UpdateProfileFailed(e) ==
  e.op = "updateProfile" /\ e.ev = "done" /\ e.status # Ok

\* C16: a failed updateProfile changes only the error field: user, token,
\* isAuthenticated and isLoading keep their values, and the operation
\* resolves normally instead of throwing.
C16_FailedUpdateProfileChangesOnlyError ==
  [][UpdateProfileFailed(last') =>
        /\ session'.user = session.user
        /\ session'.token = session.token
        /\ session'.isAuthenticated = session.isAuthenticated
        /\ session'.isLoading = session.isLoading
        /\ session'.error = last'.msg /\ last'.msg # None
        /\ last'.outcome = "resolved_failure"]_vars

\* updateProfile failed while a login was in flight: the error is set and
\* isLoading is still true
C16_Witness ==
  /\ UpdateProfileFailed(last)
  /\ session.error = last.msg /\ session.error # None
  /\ session.isLoading

RegisterSucceeded(e) == e.op = "register" /\ e.ev = "done" /\ e.status = Ok

\* C17: a successful register leaves user, token and isAuthenticated as
\* they were before the call (no auto-login) and ends with isLoading=false
\* and error=null.
C17_RegisterSuccessKeepsSession ==
  [][RegisterSucceeded(last') =>
        /\ session'.user = session.user
        /\ session'.token = session.token
        /\ session'.isAuthenticated = session.isAuthenticated
        /\ ~session'.isLoading /\ session'.error = None
        /\ RanAlone' =>
              /\ session'.token = last'.tok0
              /\ session'.isAuthenticated = last'.auth0]_vars

\* a register succeeded in a session that was not authenticated and still
\* is not
C17_Witness ==
  /\ RegisterSucceeded(last) /\ RanAlone
  /\ ~session.isLoading /\ session.error = None
  /\ ~session.isAuthenticated /\ session.user = NullUser

ChangePasswordSucceeded(e) ==
  e.op = "changePassword" /\ e.ev = "done" /\ e.status = Ok

\* C18: a successful changePassword changes no session field other than
\* error, and leaves error null even when a previous operation had set it.
C18_ChangePasswordSuccessClearsError ==
  [][ChangePasswordSucceeded(last') =>
        session' = [session EXCEPT !.error = None]]_vars

-----------------------------------------------------------------------------
(* non-2xx answers other than 401, and retries *)

\* the invocation went through the axios instance of api.js
ViaWrapper(e) ==
  \/ e.op \in {"updateProfile", "changePassword", "initializeAuth", "client"}
  \/ build = "api" /\ e.op \in {"login", "register"}

\* a request through the axios instance was just answered with a non-2xx
\* status other than 401
OtherErrorStatus(e) ==
  e.ev = "done" /\ e.status = BadRequest /\ ViaWrapper(e)

GenericMessage(op) ==
  IF op = "login" THEN LoginFailedMsg
  ELSE IF op = "register" THEN RegistrationFailedMsg
  ELSE IF op = "updateProfile" THEN ProfileUpdateFailedMsg
  ELSE PasswordChangeFailedMsg

\* C19 as stated: a response with a non-2xx status other than 401 is
\* surfaced to the caller as a failure carrying the message of the server
\* when present and otherwise the generic message of the operation, and it
\* causes no forced logout: persisted token, session token and
\* isAuthenticated are unchanged and no navigation is triggered.
C19_OtherStatusSurfacedAndNothingCleared ==
  [][OtherErrorStatus(last') =>
        /\ last'.outcome \in {"rejected", "resolved_failure"}
        /\ last'.op # "client" =>
              last'.msg = IF last'.detail # None THEN last'.detail
                          ELSE GenericMessage(last'.op)
        /\ last'.forced = 0 /\ redirected' = redirected
        /\ StoredToken(storage') = StoredToken(storage)
        /\ session'.token = session.token
        /\ session'.isAuthenticated = session.isAuthenticated]_vars

\* C19 as amended: a response with a non-2xx status other than 401 to a
\* request sent through the axios instance makes the response interceptor
\* remove nothing and navigate nowhere.  For initializeAuth it is not
\* surfaced and logs the session out.  For every other operation it is
\* surfaced as a failure, session token and isAuthenticated are unchanged,
\* and: a resource-client call changes neither session nor storage; a
\* store operation sets error to the message of the server when present
\* and otherwise to its generic message, and its set() leaves the session
\* token as the persisted token.
C19_OtherStatusForcesNoLogout ==
  [][OtherErrorStatus(last') =>
        /\ last'.forced = 0 /\ redirected' = redirected
        /\ IF last'.op = "initializeAuth"
           THEN /\ last'.outcome = "resolved"
                /\ session' = EmptySession
                /\ StoredToken(storage') = None
           ELSE /\ last'.outcome \in {"rejected", "resolved_failure"}
                /\ session'.token = session.token
                /\ session'.isAuthenticated = session.isAuthenticated
                /\ IF last'.op = "client"
                   THEN session' = session /\ storage' = storage
                   ELSE /\ session'.error =
                             IF last'.detail # None THEN last'.detail
                             ELSE GenericMessage(last'.op)
                        /\ last'.msg = session'.error
                        /\ StoredToken(storage') = session.token]_vars

\* updateProfile was answered 400 in an authenticated session: the token is
\* still in the session and in storage, nothing navigated
C19_Witness ==
  /\ OtherErrorStatus(last) /\ last.op = "updateProfile"
  /\ session.isAuthenticated /\ session.token # None
  /\ StoredToken(storage) = session.token
  /\ ~redirected /\ last.forced = 0

\* the requests an invocation has sent: one record of counts per invocation
\* in flight, and that of the invocation that just completed
RequestCounts ==
  {[op |-> c.op, nMain |-> c.nMain, nProfile |-> c.nProfile] : c \in calls}
  \cup (IF last.ev = "done" /\ last.op \notin {"logout", "reload", "clearError"}
        THEN {[op |-> last.op, nMain |-> last.nMain,
               nProfile |-> last.nProfile]}
        ELSE {})

\* C20: no operation is retried: one invocation of a store operation or of
\* a resource-client method sends at most one request to each endpoint it
\* uses (login: at most one authentication request and at most one profile
\* request), on success and on every failure, 401 included.
C20_AtMostOneRequestPerEndpoint ==
  \A r \in RequestCounts :
     /\ r.nMain <= 1 /\ r.nProfile <= 1
     /\ r.op \notin {"login", "initializeAuth"} => r.nProfile = 0
     /\ r.op = "initializeAuth" => r.nMain = 0

\* part_000's login sent its authentication request and its profile
\* request, was answered 401 by the profile endpoint and has completed
C20_Witness ==
  /\ Completed("login") /\ last.status = Unauthorized
  /\ last.rtok # None
  /\ last.nMain = 1 /\ last.nProfile = 1

-----------------------------------------------------------------------------
(* initializeAuth *)

\* initializeAuth just had its profile request answered with the profile
InitializeAuthSucceeded(e) ==
  e.op = "initializeAuth" /\ e.ev = "done" /\ e.status = Ok /\ e.nProfile = 1

\* initializeAuth just returned without having sent anything
InitializeAuthSkipped(e) ==
  e.op = "initializeAuth" /\ e.ev = "done" /\ e.nProfile = 0

\* C21: initializeAuth with a token from storage whose profile request
\* succeeds ends with isAuthenticated=true, user equal to the fetched
\* profile and the token unchanged; initializeAuth with no token sends no
\* request and leaves every session field unchanged.
C21_InitializeAuthValidatesOrSkips ==
  [][/\ InitializeAuthSucceeded(last') =>
           \E p \in Profiles :
              session' = [session EXCEPT !.user = p, !.isAuthenticated = TRUE]
     /\ (last'.op = "initializeAuth" /\ last'.ev = "start") =>
           session.token # None
     /\ InitializeAuthSkipped(last') =>
           /\ session.token = None
           /\ session' = session /\ storage' = storage
           /\ nextId' = nextId
           /\ Cardinality(calls') = Cardinality(calls)]_vars

\* the token that storage held was validated: the session is authenticated
\* with the profile and still holds that token
C21_Witness ==
  /\ InitializeAuthSucceeded(last)
  /\ last.rtok # None /\ session.token = last.rtok
  /\ StoredToken(storage) = session.token
  /\ session.isAuthenticated /\ session.user \in Profiles

-----------------------------------------------------------------------------
(* the change-password request *)

\* C22: every change-password request, whether the store's changePassword,
\* the user resource client or the Settings page issues it, is a PUT to
\* /users/password whose body is form-encoded with exactly the fields
\* current_password and new_password, taken from currentPassword and
\* newPassword of the caller.
C22_ChangePasswordRequestIsForm ==
  (last.ev = "start" /\ last.req # NoRequest) =>
     /\ last.req.method = "PUT" /\ last.req.url = "/users/password"
     /\ last.req.encoding = "form"
     /\ last.req.fields = {<<"current_password", PasswordData.currentPassword>>,
                           <<"new_password", PasswordData.newPassword>>}

-----------------------------------------------------------------------------
(* invariants of the session under interleaving *)

\* C23: in every reachable state, under every interleaving of login,
\* logout, initializeAuth and the arrival of responses, isAuthenticated
\* implies that the token is not null: a logout that runs while the profile
\* request of initializeAuth is in flight is never followed by a state with
\* isAuthenticated=true and token=null.
C23_AuthenticatedHasToken ==
  session.isAuthenticated => session.token # None

\* C25: the persisted token and the token of the session agree whenever no
\* handler is in the middle of a step: after every completed store update
\* and every completed run of the response interceptor, storage holds a
\* token if and only if the session token is not null, and the two are
\* equal.
C25_PersistedTokenIsSessionToken ==
  StoredToken(storage) = session.token

\* the login and register invocations in flight
AuthCallsInFlight == {c \in calls : c.op \in {"login", "register"}}

\* C26: isLoading is true exactly while at least one login or register
\* invocation is in flight: never false while such a request is unresolved,
\* never true when none is in flight.
C26_LoadingIffAuthCallInFlight ==
  session.isLoading <=> AuthCallsInFlight # {}

\* a login or an initializeAuth that was in flight when logout ran just
\* completed
StaleResponse(e) ==
  e.ev = "done" /\ e.op \in {"login", "initializeAuth"} /\ e.stale

\* C24: once logout has been called the session stays Unauthenticated
\* (isAuthenticated=false, token=null) until a login or initializeAuth is
\* started after that logout: a response to a login or initializeAuth
\* request that was in flight when logout ran never authenticates the
\* session again and never persists a token again.
C24_StaleResponseNeverReauthenticates ==
  [][StaleResponse(last') =>
        /\ ~session.isAuthenticated => ~session'.isAuthenticated
        /\ session.token = None => session'.token = None
        /\ StoredToken(storage) = None => StoredToken(storage') = None]_vars

-----------------------------------------------------------------------------
(* a failed login or register in an authenticated session *)

\* the session, the storage and the default header of a page on which a
\* login has succeeded and nothing is in flight: what Spec reaches from
\* Init by LoginStart and LoginApiOk (authStore.js), or by LoginStart,
\* LoginFetchOk and LoginFetchProfile (part_000)
LoggedIn(b) ==
  /\ build = b
  /\ session \in {LoginSuccess(EmptySession, p, "t1") : p \in Profiles}
  /\ storage = Persist(session)
  /\ defaults = IF b = "api" THEN Bearer("t1") ELSE NoHeader
  /\ redirected = FALSE
  /\ calls = {}
  /\ validated = IF b = "api" THEN {}
                 ELSE Validate({}, Bearer("t1"), OkResponse)
  /\ granted = TRUE

\* the invocations are counted from the page with the login done
InitLoggedIn ==
  /\ \E b \in Builds : LoggedIn(b)
  /\ nextId = 1
  /\ last = NoEvent

SpecLoggedIn == InitLoggedIn /\ [][Next]_vars

\* a login or a register just failed
AuthOpFailed(e) ==
  /\ e.ev = "done" /\ e.op \in {"login", "register"}
  /\ e.outcome \in {"rejected", "resolved_failure"}

\* C27: a login or register that fails while the session is already
\* Authenticated leaves user, token, isAuthenticated and the persisted
\* token as they were; only isLoading and error change.
C27_FailureKeepsAuthenticatedSession ==
  [][(AuthOpFailed(last') /\ session.isAuthenticated) =>
        /\ session'.user = session.user
        /\ session'.token = session.token
        /\ session'.isAuthenticated
        /\ StoredToken(storage') = StoredToken(storage)]_vars

====
